---- MODULE Spec2Model ----
(***************************************************************************)
(* Model of the pager / table builder of fmclient/common/utils.py:         *)
(* print_long_list, _sort_for_list, pt_builder.PT_Builder (add_row,        *)
(* _row_add, get_string, build_pretty_table, done), _build_row_from_object,*)
(* parse_date, str_height and row_height.                                  *)
(*                                                                         *)
(* A text is a record [s, ts, nl, len, u, na]: s is a code for its         *)
(* characters (used for ordering), ts the hour of the date-time it embeds  *)
(* (NoTs when it embeds none), nl its number of embedded line breaks, len  *)
(* the length of its longest line, u the bytes this line gains when the    *)
(* text is encoded as utf-8, for a unicode text that str() cannot convert  *)
(* (0 for a text str() converts), and na whether it holds characters       *)
(* outside ASCII.  An object is a function from attribute names to texts;  *)
(* objects live in a heap and are referred to by identity.                 *)
(*                                                                         *)
(* The module is Python 2 code: str() of a unicode text with characters    *)
(* outside ASCII raises UnicodeEncodeError, and so does print of such a    *)
(* text when the standard output has no encoding.                          *)
(***************************************************************************)
EXTENDS Integers, Sequences, FiniteSets, TLC

\* ---------------------------------------------------------------- bounds
MaxObjs == 3
MinTermHeight == 4
MaxTermHeight == 8
\* the prompts answered in one run of print_long_list (the runs of lists of
\* MaxObjs objects answer no more)
MaxPrompts == 13

\* ------------------------------------------------------- fixed test data
NoTs == 0 - 1
Fields == <<"a", "b">>
ColWidth == 2
BigWidth == 99
TermWidths == {4}
TzOffsets == {0, 1}

\* an ASCII text
Text(s, ts, nl, len) ==
  [s |-> s, ts |-> ts, nl |-> nl, len |-> len, u |-> 0, na |-> FALSE]

\* a unicode text with characters outside ASCII, like u'caf\xe9': str()
\* raises UnicodeEncodeError on it, and its utf-8 bytes are n more than its
\* characters
Unicode(text, n) == [text EXCEPT !.u = n, !.na = TRUE]

\* str(data) raises UnicodeEncodeError
StrRaises(data) == data.u > 0

\* what a function gives that is left by UnicodeEncodeError
UnicodeEncodeError == 0 - 2
EmptyStr == Text(0, NoTs, 0, 0)
field_labels == <<Text(1, NoTs, 0, 3), Text(2, NoTs, 0, 1)>>

\* the kinds of object fed to the printer, all of texts str() converts
\*   a short date-time in a and no attribute b: one line, fits the width
\*   a long a that wraps to two lines and a long date-time in b: too wide
\*   three lines in a and a long b: too wide and three lines high; it has
\*   an attribute c, a date-time, that is not among the fields
ObjKinds ==
  { [a |-> Text(2, 10, 0, 1)],
    [a |-> Text(1, NoTs, 0, 4), b |-> Text(3, 10, 0, 4)],
    [a |-> Text(3, NoTs, 2, 1), b |-> Text(4, NoTs, 0, 4),
     c |-> Text(5, 10, 0, 1)] }

\* the same kinds, the long a of the second one a unicode text that str()
\* cannot convert
UnicodeKinds ==
  { [a |-> Text(2, 10, 0, 1)],
    [a |-> Unicode(Text(1, NoTs, 0, 4), 1), b |-> Text(3, 10, 0, 4)],
    [a |-> Text(3, NoTs, 2, 1), b |-> Text(4, NoTs, 0, 4),
     c |-> Text(5, 10, 0, 1)] }

\* the field lists normalize_field_data is called with
FieldLists == {Fields, <<"b">>}

\* the formatter maps as_wrapping_formatters may hand back: field -> the
\* formatter's kind and its initial no-wrap setting
FormatterConfigs ==
  { [a |-> [kind |-> "wrap", no_wrap |-> FALSE]],
    [a |-> [kind |-> "wrap", no_wrap |-> FALSE],
     b |-> [kind |-> "wrap", no_wrap |-> TRUE]] }

\* a formatter map whose formatter is a plain one, not a wrapping one
PlainConfigs ==
  { [a |-> [kind |-> "plain", no_wrap |-> FALSE]] }

\* the largest code of a text
MaxCode == 9

VARIABLES
  objs,                \* print_long_list: the list of objects (ids)
  sortby, reversesort, \* print_long_list: sort arguments
  pc,                  \* print_long_list: position ("sort", "feed", "wait",
                       \* "fin", "raised")
  pending,             \* the call that waits at the prompt of line 462
  fed,                 \* print_long_list: number of objects iterated
  heap,                \* the objects, by identity
  formatters,          \* field -> formatter kind
  no_wrap,             \* field -> the formatter's no-wrap setting
  nowrap,              \* wrapping_formatters' global no-wrap override
  tz,                  \* offset of the local time zone, in hours
  paging,              \* pt_builder's paging argument
  terminal_width, terminal_height,
  stdout_encoding,     \* sys.stdout.encoding: "none" or "utf-8"
  objs_in_pt, header_height, terminal_lines_left, paged_rows_added, pt, quit,
  ret,                 \* what the last add_row call returned
  log                  \* the observable events, in order

vars == <<objs, sortby, reversesort, pc, pending, fed, heap, formatters, no_wrap,
          nowrap, tz, paging, terminal_width, terminal_height,
          stdout_encoding, objs_in_pt, header_height, terminal_lines_left,
          paged_rows_added, pt, quit, ret, log>>

params == <<sortby, reversesort, formatters, nowrap, tz, paging,
            terminal_width, terminal_height, stdout_encoding>>

\* ----------------------------------------------------------- arithmetic
Max(x, y) == IF x >= y THEN x ELSE y
Min(x, y) == IF x <= y THEN x ELSE y
CeilDiv(x, y) == (x + y - 1) \div y

RECURSIVE SeqMax(_)
SeqMax(s) == IF Len(s) = 1 THEN s[1] ELSE Max(s[1], SeqMax(Tail(s)))

RECURSIVE SeqSum(_)
SeqSum(s) == IF s = <<>> THEN 0 ELSE s[1] + SeqSum(Tail(s))

\* ------------------------------------------------------ height calculator
\* lines 311-316: 1 for the empty text; str(text) raises for a unicode
\* text it cannot convert; else the number of lines
str_height(text) ==
  IF text = EmptyStr THEN 1
  ELSE IF StrRaises(text) THEN UnicodeEncodeError
  ELSE text.nl + 1

\* lines 319-323: the exception of a cell leaves row_height too
row_height(texts) ==
  IF texts = <<>> THEN 1
  ELSE IF \E i \in 1..Len(texts): str_height(texts[i]) = UnicodeEncodeError
  THEN UnicodeEncodeError
  ELSE SeqMax([i \in 1..Len(texts) |-> str_height(texts[i])])

\* ------------------------------------------------------------ parse_date
parse_date(string_data) ==
  IF string_data.ts = NoTs THEN string_data
  ELSE [string_data EXCEPT !.ts = string_data.ts + tz]

\* ------------------------------------------------------------ attributes
\* mutant of getattr: the default is None, which displays as 'None'
getattr_DefaultNone(o, f) ==
  IF f \in DOMAIN o THEN o[f] ELSE Text(MaxCode, NoTs, 0, 4)

\* getattr(o, field, '')
getattr(o, f) == IF f \in DOMAIN o THEN o[f] ELSE EmptyStr

setattr(o, f, v) == [g \in DOMAIN o \cup {f} |-> IF g = f THEN v ELSE o[g]]

hasattr(o, f) == f \in DOMAIN o

\* ------------------------------------------------- normalize_field_data
\* data.encode('utf-8'): a byte string, longer by the bytes gained
encode_utf8(data) == [data EXCEPT !.len = @ + data.u, !.u = 0]

\* lines 192-198: the loop over the fields, from field i on
RECURSIVE NormalizeFrom(_, _, _)
NormalizeFrom(i, o, fields) ==
  IF i > Len(fields) THEN o
  ELSE IF hasattr(o, fields[i]) /\ StrRaises(getattr(o, fields[i]))
  THEN NormalizeFrom(i + 1,
                     setattr(o, fields[i], encode_utf8(getattr(o, fields[i]))),
                     fields)
  ELSE NormalizeFrom(i + 1, o, fields)

\* lines 191-198
normalize_field_data(o, fields) == NormalizeFrom(1, o, fields)

\* --------------------------------------------- wrapping_formatters (spec)
is_wrapper_formatter(fmts, f) == f \in DOMAIN fmts /\ fmts[f].kind = "wrap"

\* textwrap.fill: greedy reflow of every line of a text to a width
Fill(text, width) ==
  IF text.len <= width THEN text
  ELSE [text EXCEPT !.nl = (text.nl + 1) * CeilDiv(text.len, width) - 1,
                    !.len = width]

get_actual_column_char_len(nw, f) == IF nw[f] THEN BigWidth ELSE ColWidth

\* a plain formatter: an opaque conversion of the attribute to a string,
\* here one that turns the order of the texts around
PlainFormat(text) == [text EXCEPT !.s = MaxCode - @]

\* formatters[field](o): the display text of the field of object o
Format(nw, f, o) ==
  IF ~is_wrapper_formatter(formatters, f) THEN PlainFormat(getattr(o, f))
  ELSE IF ~nowrap /\ ~nw[f] THEN Fill(o[f], ColWidth)
  ELSE o[f]

set_no_wrap_on_formatters(nw, value) == [f \in DOMAIN nw |-> value]

unset_no_wrap_on_formatters(nw, orig) == orig

get_unwrapped_field_value(o, f) == IF f \in DOMAIN o THEN o[f] ELSE EmptyStr

\* ------------------------------------------------------------ row builder
\* mutant of BuildRowFrom: the normalized value is written back for every
\* field, with or without a formatter
RECURSIVE BuildRowFrom_WritesAlways(_, _, _, _)
BuildRowFrom_WritesAlways(i, nw, o, row) ==
  IF i > Len(Fields) THEN [row |-> row, o |-> o]
  ELSE LET field == Fields[i]
           data == parse_date(getattr(o, field))
           o2 == setattr(o, field, data)
       IN IF field \in DOMAIN formatters
          THEN BuildRowFrom_WritesAlways(i + 1, nw, o2,
                                         Append(row, Format(nw, field, o2)))
          ELSE BuildRowFrom_WritesAlways(i + 1, nw, o2, Append(row, data))

\* returns the row and the object as the loop leaves it
RECURSIVE BuildRowFrom(_, _, _, _)
BuildRowFrom(i, nw, o, row) ==
  IF i > Len(Fields) THEN [row |-> row, o |-> o]
  ELSE LET field == Fields[i]
           data == parse_date(getattr(o, field))
       IN IF field \in DOMAIN formatters
          THEN LET o2 == setattr(o, field, data)
               IN BuildRowFrom(i + 1, nw, o2, Append(row, Format(nw, field, o2)))
          ELSE BuildRowFrom(i + 1, nw, o, Append(row, data))

_build_row_from_object(nw, o) == BuildRowFrom(1, nw, o, <<>>)

\* ----------------------------------------------------------- prettytable
wordwrap_header(nw, field, field_label) ==
  IF nowrap THEN field_label
  ELSE IF ~is_wrapper_formatter(formatters, field) THEN field_label
  ELSE Fill(field_label, get_actual_column_char_len(nw, field))

EmptyOut == [field_names |-> <<>>, rows |-> <<>>]

\* PrettyTable.get_string with print_empty=False
PtGetString(t) == IF t.rows = <<>> THEN EmptyOut ELSE t

ColLen(out, c) ==
  SeqMax(<<out.field_names[c].len>> \o
         [r \in 1..Len(out.rows) |-> out.rows[r].cells[c].len])

get_width(out) ==
  IF out = EmptyOut THEN 0
  ELSE SeqSum([c \in 1..Len(out.field_names) |-> ColLen(out, c)])

\* ----------------------------------------------------------------- pager
\* The methods of PT_Builder are functions of a record st that holds the
\* fields of self, the heap, the formatters' no-wrap settings, the answers
\* the user will type (ans) and the events so far (log).  depth counts the
\* get_string calls that are replaying objects.  Every method is written
\* as a chain of steps, each step a function of the state the step before
\* it leaves.
NoPt == [none |-> TRUE]

Event(st, e) == [st EXCEPT !.log = Append(@, e @@ [d |-> st.depth])]

Rows(st) == IF st.pt = NoPt THEN 0 ELSE Len(st.pt.rows)

HeaderLabels(nw) ==
  [i \in 1..Len(Fields) |-> wordwrap_header(nw, Fields[i], field_labels[i])]

NewTable(st, labels) ==
  Event([st EXCEPT !.pt = [field_names |-> labels, rows |-> <<>>],
                   !.header_height = 2 + 1 + 1 + row_height(labels),
                   !.terminal_lines_left =
                       terminal_height - (2 + 1 + 1 + row_height(labels))],
        [e |-> "build"])

build_pretty_table(st) == NewTable(st, HeaderLabels(st.no_wrap))

\* if not self.pt: self.build_pretty_table()
BuiltTable(st) == IF st.pt = NoPt THEN build_pretty_table(st) ELSE st

add_row_and_obj(st, row, obj) ==
  Event([st EXCEPT !.pt.rows = Append(@, [obj |-> obj, cells |-> row]),
                   !.objs_in_pt = Append(@, obj)],
        [e |-> "append", obj |-> obj])

\* An exception is raised: the state it is raised in is kept in wait (eof
\* marks that the rest of the evaluation is void, exc that an exception
\* made it so).
Raise(st) ==
  IF st.eof THEN st ELSE [st EXCEPT !.eof = TRUE, !.exc = TRUE, !.wait = <<st>>]

\* the rendered table holds a character outside ASCII (the table renders
\* byte strings and unicode texts alike to one unicode text)
NonAscii(out) ==
  \E r \in 1..Len(out.rows):
    \E c \in 1..Len(out.rows[r].cells): out.rows[r].cells[c].na

\* print(s) raises UnicodeEncodeError
PrintRaises(s) == stdout_encoding = "none" /\ NonAscii(s)

\* default_printer, line 408.  hh: the header height of the table the text
\* was rendered from; left: the lines left when it is printed
printer(st, s) ==
  IF PrintRaises(s) THEN Raise(st)
  ELSE Event(st, [e |-> "print", out |-> s, hh |-> st.header_height,
                  left |-> st.terminal_lines_left])

\* six.moves.input: reads the next answer.  When none is left the call
\* blocks here: the state it waits in is kept in wait (eof marks that the
\* rest of the evaluation is void).
input(st) ==
  IF st.ans = <<>>
  THEN [st |-> IF st.eof THEN st
               ELSE [st EXCEPT !.eof = TRUE, !.wait = <<st>>],
        s |-> "q"]
  ELSE [st |-> Event([st EXCEPT !.ans = Tail(@)],
                     [e |-> "prompt", s |-> Head(st.ans)]),
        s |-> Head(st.ans)]

\* the test of line 454: the row fits, or no row was added yet
RowFits(st, rheight) ==
  (st.terminal_lines_left - rheight) >= 0 \/ st.paged_rows_added = 0

\* mutant of AppendAndCount: every row is paid for as one line
AppendAndCount_OneLine(st, row, obj, rheight) ==
  [add_row_and_obj(st, row, obj) EXCEPT !.terminal_lines_left = @ - 1,
                                        !.paged_rows_added = @ + 1]

\* lines 455-456 and 468-470: the row is added and paid for
AppendAndCount(st, row, obj, rheight) ==
  [add_row_and_obj(st, row, obj) EXCEPT !.terminal_lines_left = @ - rheight,
                                        !.paged_rows_added = @ + 1]

\* lines 458-460: the page and the blank lines under it are printed
Pad(st) ==
  IF st.terminal_lines_left > 0
  THEN Event(st, [e |-> "pad", n |-> st.terminal_lines_left - 1])
  ELSE st

Flush(g) == Pad(printer(g.st, g.out))

\* lines 466-469: a new page is started with the pending row
Continue(st, row, obj, rheight) ==
  AppendAndCount(
    build_pretty_table([st EXCEPT !.terminal_lines_left =
                                      terminal_height - st.header_height]),
    row, obj, rheight)

\* lines 462-470: the answer to the prompt is acted on
Answered(in, row, obj, rheight) ==
  IF in.s = "q"
  THEN [st |-> [in.st EXCEPT !.quit = TRUE], ret |-> "False"]
  ELSE [st |-> Continue(in.st, row, obj, rheight), ret |-> "None"]

RECURSIVE add_row(_, _)
RECURSIVE _row_add(_, _)
RECURSIVE get_string(_)
RECURSIVE Replay(_, _)

\* the page is flushed after the prompt was answered
FlushAnswered(in) == [st |-> Flush(get_string(in.st)), s |-> in.s]

\* mutant of PageBreak: the user is prompted before the page is printed
PageBreak_PromptFirst(st, row, obj, rheight) ==
  Answered(
    FlushAnswered(input(Event(st, [e |-> "page_break", obj |-> obj,
                                   rows |-> Rows(st)]))),
    row, obj, rheight)

\* lines 457-470: the else branch of _row_add.  The event "page_break"
\* records the row that does not fit and the rows of the current page.
PageBreak(st, row, obj, rheight) ==
  Answered(
    input(Flush(get_string(Event(st, [e |-> "page_break", obj |-> obj,
                                      rows |-> Rows(st)])))),
    row, obj, rheight)

\* mutant of Paged: every row is appended as if it fitted
Paged_AlwaysFits(st, row, obj, rheight) ==
  IF rheight = UnicodeEncodeError
  THEN [st |-> Raise(st), ret |-> "None"]
  ELSE [st |-> AppendAndCount(st, row, obj, rheight), ret |-> "None"]

\* lines 454-470, with the height line 453 has computed: the exception of
\* row_height leaves _row_add with the row built and not appended
Paged(st, row, obj, rheight) ==
  IF rheight = UnicodeEncodeError
  THEN [st |-> Raise(st), ret |-> "None"]
  ELSE IF RowFits(st, rheight)
  THEN [st |-> AppendAndCount(st, row, obj, rheight), ret |-> "None"]
  ELSE PageBreak(st, row, obj, rheight)

\* line 453: the event "row_height" records the row and what row_height
\* gives for it
Measure(st, row, obj, rheight) ==
  Paged(Event(st, [e |-> "row_height", obj |-> obj, row |-> row,
                   h |-> rheight]),
        row, obj, rheight)

\* lines 449-470: row_height is called with paging only
RowBuilt(st, row, obj) ==
  IF ~paging
  THEN [st |-> add_row_and_obj(st, row, obj), ret |-> "True"]
  ELSE Measure(st, row, obj, row_height(row))

\* line 447: the row is built, which may change the object; the event
\* "build_row" records the row, the no-wrap settings it was built under and
\* the object as it was before the call (was) and as the call leaves it (now)
WithRow(st, b, obj) ==
  RowBuilt(Event([st EXCEPT !.heap[obj] = b.o],
                 [e |-> "build_row", obj |-> obj, row |-> b.row,
                  no_wrap |-> st.no_wrap, was |-> st.heap[obj], now |-> b.o]),
           b.row, obj)

_row_add(st, obj) ==
  WithRow(st, _build_row_from_object(st.no_wrap, st.heap[obj]), obj)

Return(r, obj) ==
  [st |-> Event(r.st, [e |-> "return", obj |-> obj, ret |-> r.ret]),
   ret |-> r.ret]

\* mutant of Called: the quit flag is not looked at
Called_NoQuitCheck(st, obj) == Return(_row_add(BuiltTable(st), obj), obj)

\* lines 435-439
Called(st, obj) ==
  IF st.quit THEN Return([st |-> st, ret |-> "False"], obj)
  ELSE Return(_row_add(BuiltTable(st), obj), obj)

add_row(st, obj) == Called(Event(st, [e |-> "add_row", obj |-> obj]), obj)

\* for o in objs: self.add_row(o)
Replay(st, os) ==
  IF os = <<>> THEN st ELSE Replay(add_row(st, Head(os)).st, Tail(os))

\* line 485: no-wrap is forced on the formatters
Forced(st) ==
  Event([st EXCEPT !.no_wrap = set_no_wrap_on_formatters(@, TRUE)],
        [e |-> "rebuild"])

Deeper(st) == [st EXCEPT !.depth = @ + 1]

\* mutant of Restored: the settings are left as the fallback forced them
Restored_NotRestored(st, orig_no_wrap_settings, os, output) ==
  [st |-> Event([st EXCEPT !.depth = @ - 1],
                [e |-> "fallback", objs |-> os, before |-> output,
                 after |-> PtGetString(st.pt)]),
   out |-> PtGetString(st.pt)]

\* mutant of Restored: the unwrapped text is measured again and dropped
\* when it is still too wide
Restored_MeasuredAgain(st, orig_no_wrap_settings, os, output) ==
  [st |-> Event(Event([st EXCEPT !.no_wrap = unset_no_wrap_on_formatters(
                                               @, orig_no_wrap_settings),
                                 !.depth = @ - 1],
                      [e |-> "measure",
                       width |-> get_width(PtGetString(st.pt))]),
                [e |-> "fallback", objs |-> os, before |-> output,
                 after |-> PtGetString(st.pt)]),
   out |-> IF get_width(PtGetString(st.pt)) <= terminal_width
           THEN PtGetString(st.pt) ELSE EmptyOut]

\* lines 489-490: the settings are restored and the table rendered.  The
\* event "fallback" records the text that was too wide (before) and the
\* text that is returned (after).
Restored(st, orig_no_wrap_settings, os, output) ==
  [st |-> Event([st EXCEPT !.no_wrap = unset_no_wrap_on_formatters(
                                         @, orig_no_wrap_settings),
                           !.depth = @ - 1],
                [e |-> "fallback", objs |-> os, before |-> output,
                 after |-> PtGetString(st.pt)]),
   out |-> PtGetString(st.pt)]

\* The width fallback of get_string (lines 483-490)
Fallback(st, os, output) ==
  Restored(Replay(build_pretty_table(Deeper(Forced(st))), os),
           st.no_wrap, os, output)

\* lines 480-482
Measured(st, os, output) ==
  IF get_width(output) <= terminal_width
  THEN [st |-> st, out |-> output]
  ELSE Fallback(st, os, output)

\* mutant of Rendered: the global no-wrap override is not looked at
Rendered_IgnoresOverride(st, os, output) ==
  Measured(Event(st, [e |-> "measure", width |-> get_width(output)]),
           os, output)

\* lines 478-490
Rendered(st, os, output) ==
  IF nowrap THEN [st |-> st, out |-> output]
  ELSE Measured(Event(st, [e |-> "measure", width |-> get_width(output)]),
                os, output)

\* The events "get_string" and "got_string" mark the call and its return,
\* with the formatters' no-wrap settings at these two points.
GotString(r) ==
  [st |-> Event(r.st, [e |-> "got_string", no_wrap |-> r.st.no_wrap,
                       out |-> r.out]),
   out |-> r.out]

\* lines 475-490
Flushing(st) ==
  GotString(Rendered(Event([st EXCEPT !.objs_in_pt = <<>>],
                           [e |-> "get_string", no_wrap |-> st.no_wrap]),
                     st.objs_in_pt, PtGetString(st.pt)))

get_string(st) == Flushing(BuiltTable(st))

Emit(g) == printer(g.st, g.out)

\* mutant of Finish: the final emit is decided on the lines left alone
Finish_LinesLeftOnly(st) ==
  IF st.quit THEN st
  ELSE IF st.terminal_lines_left < terminal_height - st.header_height
  THEN Emit(get_string(st))
  ELSE st

\* lines 505-509
Finish(st) ==
  IF st.quit THEN st
  ELSE IF ~paging
          \/ st.terminal_lines_left < terminal_height - st.header_height
  THEN Emit(get_string(st))
  ELSE st

\* the event "done" records the quit flag and the rows of the current
\* page when done is called
done(st) ==
  Finish(Event(st, [e |-> "done", quit |-> st.quit, rows |-> Rows(st)]))

\* -------------------------------------------------------- _sort_for_list
TextLess(x, y) == x.s < y.s \/ (x.s = y.s /\ x.ts < y.ts)

sort_key(h, f, x) ==
  IF f \in DOMAIN formatters
  THEN IF is_wrapper_formatter(formatters, f)
       THEN get_unwrapped_field_value(h[x], f)
       ELSE Format([g \in DOMAIN formatters |-> formatters[g].no_wrap], f, h[x])
  ELSE getattr(h[x], f)

\* list.sort(reverse=..., key=...): stable in both directions
RECURSIVE Insert(_, _, _, _, _)
Insert(h, f, rev, sorted, x) ==
  IF sorted = <<>> THEN <<x>>
  ELSE LET y == sorted[Len(sorted)]
           before == IF rev THEN TextLess(sort_key(h, f, y), sort_key(h, f, x))
                     ELSE TextLess(sort_key(h, f, x), sort_key(h, f, y))
       IN IF before
          THEN Append(Insert(h, f, rev, SubSeq(sorted, 1, Len(sorted) - 1), x), y)
          ELSE Append(sorted, x)

RECURSIVE SortFrom(_, _, _, _, _)
SortFrom(h, f, rev, os, sorted) ==
  IF os = <<>> THEN sorted
  ELSE SortFrom(h, f, rev, Tail(os), Insert(h, f, rev, sorted, Head(os)))

NoSort == 0

RECURSIVE Reversed(_)
Reversed(s) == IF s = <<>> THEN <<>> ELSE Append(Reversed(Tail(s)), Head(s))

\* mutant of _sort_for_list: a descending sort made by turning the
\* ascending one around
_sort_for_list_TurnedAround(h, os, sb, rev) ==
  IF sb = NoSort THEN os
  ELSE IF rev THEN Reversed(SortFrom(h, Fields[sb], FALSE, os, <<>>))
  ELSE SortFrom(h, Fields[sb], FALSE, os, <<>>)

\* lines 285-308
_sort_for_list(h, os, sb, rev) ==
  IF sb = NoSort THEN os ELSE SortFrom(h, Fields[sb], rev, os, <<>>)

\* --------------------------------------------------------- specification
TermHeights == MinTermHeight..MaxTermHeight
Answers == {"", "q"}
\* the lists of at most max objects of these kinds
ObjLists(kinds, max) == UNION {[1..n -> kinds] : n \in 0..max}

\* the state when the objects exist and print_long_list is about to be
\* called, for lists of objects, sort arguments, paging arguments and
\* terminal heights drawn from the given sets
InitWith(lists, configs, sortbys, pagings, heights) ==
  /\ heap \in lists
  /\ objs = [i \in 1..Len(heap) |-> i]
  /\ sortby \in sortbys
  /\ reversesort \in IF sortby = NoSort THEN {FALSE} ELSE BOOLEAN
  /\ pc = "sort"
  /\ pending = [op |-> "none"]
  /\ fed = 0
  /\ \E c \in configs:
       /\ formatters = c
       /\ no_wrap = [f \in DOMAIN c |-> c[f].no_wrap]
  /\ nowrap \in BOOLEAN
  /\ tz \in TzOffsets
  /\ paging \in pagings
  /\ terminal_width \in TermWidths
  /\ terminal_height \in heights
  /\ stdout_encoding \in IF \E x \in DOMAIN heap:
                             \E f \in DOMAIN heap[x]: heap[x][f].na
                        THEN {"none", "utf-8"} ELSE {"utf-8"}
  /\ objs_in_pt = <<>>
  /\ header_height = 0
  /\ terminal_lines_left = terminal_height
  /\ paged_rows_added = 0
  /\ pt = NoPt
  /\ quit = FALSE
  /\ ret = "None"
  /\ log = <<>>

\* lists printed unsorted, with and without paging: the lists of objects
\* whose texts str() converts, and the shorter lists of objects that may
\* hold a unicode text
Init ==
  InitWith(ObjLists(ObjKinds, MaxObjs) \cup ObjLists(UnicodeKinds, MaxObjs - 1),
           FormatterConfigs, {NoSort}, BOOLEAN, TermHeights)

\* lists printed sorted or unsorted by print_list (no paging), with
\* wrapping and with plain formatters, of objects whose texts str()
\* converts
InitList ==
  InitWith(ObjLists(ObjKinds, MaxObjs), FormatterConfigs \cup PlainConfigs,
           {NoSort} \cup DOMAIN Fields, {FALSE}, {MinTermHeight})

Self(a) ==
  [objs_in_pt |-> objs_in_pt, header_height |-> header_height,
   terminal_lines_left |-> terminal_lines_left,
   paged_rows_added |-> paged_rows_added, pt |-> pt, quit |-> quit,
   heap |-> heap, no_wrap |-> no_wrap, log |-> log, ans |-> a,
   eof |-> FALSE, exc |-> FALSE, wait |-> <<>>, depth |-> 0]

\* the effects of a call are stored
Commit(st) ==
  /\ objs_in_pt' = st.objs_in_pt
  /\ header_height' = st.header_height
  /\ terminal_lines_left' = st.terminal_lines_left
  /\ paged_rows_added' = st.paged_rows_added
  /\ pt' = st.pt
  /\ quit' = st.quit
  /\ heap' = st.heap
  /\ no_wrap' = st.no_wrap
  /\ log' = st.log

\* The caller normalizes an object, before it calls print_long_list or
\* after print_long_list has ended (nothing in the module calls
\* normalize_field_data, and print_long_list runs in the caller's thread).
NormalizeFieldData ==
  /\ pc \in {"sort", "fin", "raised"}
  /\ \E x \in DOMAIN heap, fields \in FieldLists:
       heap' = [heap EXCEPT ![x] = normalize_field_data(heap[x], fields)]
  /\ UNCHANGED <<objs, pending, fed, no_wrap, objs_in_pt, header_height,
                 terminal_lines_left, paged_rows_added, pt, quit, ret, log,
                 pc, params>>

\* print_long_list: objs = _sort_for_list(...)
SortForList ==
  /\ pc = "sort"
  /\ objs' = _sort_for_list(heap, objs, sortby, reversesort)
  /\ pc' = "feed"
  /\ UNCHANGED <<pending, fed, heap, no_wrap, objs_in_pt, header_height,
                 terminal_lines_left, paged_rows_added, pt, quit, ret, log,
                 params>>

\* no call waits
NoCall == [op |-> "none"]

\* A call has reached the prompt without an answer to read: it blocks in
\* input, in the state the code has built up to line 462.  base is the
\* state the call began in and a the answers it has read so far.
Suspend(st, op, obj, base, a) ==
  /\ Commit(st.wait[1])
  /\ pc' = "wait"
  /\ pending' = [op |-> op, obj |-> obj, base |-> base, ans |-> a]
  /\ UNCHANGED <<fed, ret>>

\* A call is left by an exception (UnicodeEncodeError of row_height, line
\* 453, or of the printer, lines 458 and 509), and print_long_list with
\* it, in the state the code has built up to there.
Leaves(st) ==
  /\ Commit(st.wait[1])
  /\ pc' = "raised"
  /\ pending' = NoCall
  /\ UNCHANGED <<fed, ret>>

\* an add_row call of print_long_list's loop has returned
AddRowReturns(r) ==
  /\ Commit(r.st)
  /\ ret' = r.ret
  /\ fed' = fed + 1
  /\ pc' = "feed"
  /\ pending' = NoCall

\* the done call has returned
DoneReturns(st) ==
  /\ Commit(st)
  /\ pc' = "fin"
  /\ pending' = NoCall
  /\ UNCHANGED <<fed, ret>>

\* add_row runs from base on the answers a, up to its return, to the
\* exception that leaves it or to the prompt that finds no answer
AddRowRuns(r, obj, base, a) ==
  IF r.st.exc THEN Leaves(r.st)
  ELSE IF r.st.eof THEN Suspend(r.st, "add_row", obj, base, a)
  ELSE AddRowReturns(r)

DoneRuns(st, base, a) ==
  IF st.exc THEN Leaves(st)
  ELSE IF st.eof THEN Suspend(st, "done", 0, base, a)
  ELSE DoneReturns(st)

\* print_long_list: for o in objs: pt.add_row(o)
AddRow ==
  /\ pc = "feed"
  /\ fed < Len(objs)
  /\ AddRowRuns(add_row(Self(<<>>), objs[fed + 1]), objs[fed + 1],
                Self(<<>>), <<>>)
  /\ UNCHANGED <<objs, params>>

\* print_long_list: pt.done()
Done ==
  /\ pc = "feed"
  /\ fed = Len(objs)
  /\ DoneRuns(done(Self(<<>>)), Self(<<>>), <<>>)
  /\ UNCHANGED <<objs, params>>

\* the call goes on with the answer x, as it went so far
Resumed(x) ==
  IF pending.op = "add_row"
  THEN AddRowRuns(add_row([pending.base EXCEPT !.ans = Append(pending.ans, x)],
                          pending.obj),
                  pending.obj, pending.base, Append(pending.ans, x))
  ELSE DoneRuns(done([pending.base EXCEPT !.ans = Append(pending.ans, x)]),
                pending.base, Append(pending.ans, x))

\* the prompts answered so far
Prompted == Len(SelectSeq(log, LAMBDA e: e.e = "prompt"))

\* line 462: the user answers the prompt
Answer ==
  /\ pc = "wait"
  /\ Prompted < MaxPrompts
  /\ \E x \in Answers: Resumed(x)
  /\ UNCHANGED <<objs, params>>

\* line 462: the read ends without an answer (end of file, interrupt);
\* the exception leaves add_row or done, and print_long_list, at once
NoAnswer ==
  /\ pc = "wait"
  /\ pc' = "raised"
  /\ UNCHANGED <<objs, pending, fed, heap, no_wrap, objs_in_pt,
                 header_height, terminal_lines_left, paged_rows_added, pt,
                 quit, ret, log, params>>

Next ==
  NormalizeFieldData \/ SortForList \/ AddRow \/ Done \/ Answer \/ NoAnswer

\* print_list never pages, so no call of it reaches the prompt, and
\* normalize_field_data leaves objects of texts str() converts as they are
NextList == SortForList \/ AddRow \/ Done

Spec == Init /\ [][Next]_vars

SpecList == InitList /\ [][NextList]_vars

\* ================================================================ claims
Events(kind) == SelectSeq(log, LAMBDA e: e.e = kind)
RowObjs(rows) == [i \in 1..Len(rows) |-> rows[i].obj]
PageHeight(out) ==
  SeqSum([i \in 1..Len(out.rows) |-> row_height(out.rows[i].cells)])
TableObjs == IF pt = NoPt THEN <<>> ELSE RowObjs(pt.rows)

\* C1: with paging disabled no prompt is read, every add_row appends its row
\* (and returns True), and the printer is called exactly once, by done, with
\* a table that holds the rows of all the objects of the list, each once, in
\* the order they were added.
C1_NoPagingOneFinalEmit ==
  ~paging =>
    /\ Events("prompt") = <<>>
    /\ pc # "fin" =>
         /\ Events("print") = <<>>
         /\ TableObjs = SubSeq(objs, 1, fed)
         /\ fed > 0 => ret = "True"
    /\ pc = "fin" =>
         /\ Len(Events("print")) = 1
         /\ RowObjs(Events("print")[1].out.rows) = objs

C1_Witness ==
  /\ ~paging /\ pc = "fin" /\ Len(objs) = MaxObjs
  /\ Events("fallback") # <<>>
  /\ sortby # NoSort /\ objs # [i \in 1..Len(objs) |-> i]
  /\ reversesort
  /\ Len(Events("print")) = 1

\* C2: with paging enabled every page handed to the printer holds exactly
\* one row, or rows whose heights sum to at most the terminal height minus
\* the header height of the page's table.
C2_PageFitsTerminal ==
  paging =>
    \A k \in 1..Len(log):
      log[k].e = "print" =>
        \/ Len(log[k].out.rows) = 1
        \/ PageHeight(log[k].out) <= terminal_height - log[k].hh

\* C3: with paging enabled a page break never happens while the current
\* page holds no row, also for the add_row calls of a replay.
C3_NoPageBreakOnEmptyPage ==
  paging =>
    \A k \in 1..Len(log): log[k].e = "page_break" => log[k].rows > 0

\* ------------------------------------------------------- reading the log
\* the first event after k that belongs to the same call as event k
\* (events of nested calls are deeper)
NextAt(k) ==
  CHOOSE j \in (k + 1)..Len(log):
    /\ log[j].d = log[k].d
    /\ \A i \in (k + 1)..(j - 1): log[i].d # log[k].d

\* the event that ends the call event k belongs to or starts
EndOf(k, kind) ==
  CHOOSE j \in (k + 1)..Len(log):
    /\ log[j].d = log[k].d /\ log[j].e = kind
    /\ \A i \in (k + 1)..(j - 1): ~(log[i].d = log[k].d /\ log[i].e = kind)

\* the call event k belongs to or starts has ended with an event of this
\* kind (it has not when it waits at a prompt or was left by an exception)
Returned(k, kind) ==
  \E j \in (k + 1)..Len(log): log[j].d = log[k].d /\ log[j].e = kind

\* the last event so far of the call event k belongs to or starts
LastOf(k, kind) == IF Returned(k, kind) THEN EndOf(k, kind) ELSE Len(log)

\* what _row_add itself does after the page break of event k, up to its
\* return: the events of its depth, those of get_string left out
BreakSteps(k) ==
  SelectSeq(SubSeq(log, k + 1, LastOf(k, "return")),
            LAMBDA e: /\ e.d = log[k].d
                      /\ e.e \notin {"get_string", "measure", "rebuild",
                                     "fallback", "got_string"})

Kinds(es) == [i \in 1..Len(es) |-> es[i].e]

InSeq(x, sq) == \E i \in 1..Len(sq): sq[i] = x

\* the first prompt answered 'q' (0: none)
FirstQuit ==
  IF \E k \in 1..Len(log): log[k].e = "prompt" /\ log[k].s = "q"
  THEN CHOOSE k \in 1..Len(log):
         /\ log[k].e = "prompt" /\ log[k].s = "q"
         /\ \A i \in 1..(k - 1): ~(log[i].e = "prompt" /\ log[i].s = "q")
  ELSE 0

\* the objects whose first add_row call starts after event k
OfferedAfter(k) ==
  {log[j].obj : j \in {i \in (k + 1)..Len(log) :
                         /\ log[i].e = "add_row"
                         /\ \A h \in 1..k: ~(log[h].e = "add_row"
                                              /\ log[h].obj = log[i].obj)}}

\* C4: once a prompt is answered 'q' the quit flag stays set, the call that
\* prompted returns False without adding its row, every add_row call that
\* starts later returns False at once without building or appending a row,
\* prompting or printing, a done call that starts later prints nothing, and
\* nothing printed later holds the row that was pending or a row offered
\* later.
C4_QuitIsFinal ==
  LET q == FirstQuit
  IN q > 0 =>
       /\ quit
       /\ log[q + 1].e = "return" /\ log[q + 1].ret = "False"
       /\ log[q + 1].d = log[q].d
       /\ \A k \in (q + 1)..Len(log):
            /\ log[k].e = "add_row" =>
                 /\ k < Len(log)
                 /\ log[k + 1].e = "return" /\ log[k + 1].ret = "False"
                 /\ log[k + 1].obj = log[k].obj
            /\ log[k].e \in {"append", "build_row"} => log[k].obj # log[q + 1].obj
            /\ log[k].e = "done" => k = Len(log)
            /\ log[k].e = "print" =>
                 \A i \in 1..Len(log[k].out.rows):
                   log[k].out.rows[i].obj \notin
                     OfferedAfter(q) \cup {log[q + 1].obj}
       /\ (pc = "feed" /\ log[Len(log)].d = 0 /\ log[Len(log)].e = "return"
           /\ log[Len(log) - 1].e = "add_row") => ret = "False"

C4_Witness ==
  /\ FirstQuit > 0 /\ log[FirstQuit].d = 0
  /\ pc = "fin"
  /\ log[Len(log)].e = "done"
  /\ \E k \in (FirstQuit + 2)..Len(log): log[k].e = "add_row"
  /\ \E k \in 1..FirstQuit: log[k].e = "print" /\ log[k].out.rows # <<>>

\* C5: when a row that is not the first of its page does not fit, _row_add
\* prints the page without that row, then the padding exactly when lines
\* are left, then prompts; after 'q' it returns False, after any other
\* answer it builds a new table, appends the pending row as its first row
\* and returns.  While the call has not returned, or when an exception has
\* left it, it is inside the flush or at the print that raised (nothing
\* printed yet) or at the prompt (page and padding printed, nothing built
\* or appended).
C5_PageBreakOrder ==
  paging =>
    \A k \in 1..Len(log):
      (log[k].e = "page_break" /\ log[k].rows > 0) =>
        LET t == BreakSteps(k)
            n == Len(t)
            padded == n >= 1 /\ t[1].left > 0
            p == IF padded THEN 3 ELSE 2
            rest == SubSeq(t, p, n)
        IN /\ n >= 1 =>
                /\ t[1].e = "print"
                /\ ~InSeq(log[k].obj, RowObjs(t[1].out.rows))
                /\ n >= p - 1
           /\ padded => (t[2].e = "pad" /\ t[2].n = t[1].left - 1)
           /\ Returned(k, "return") = (n >= p)
           /\ n >= p =>
                /\ rest[1].e = "prompt"
                /\ IF rest[1].s = "q"
                   THEN /\ Kinds(rest) = <<"prompt", "return">>
                        /\ rest[2].ret = "False"
                   ELSE /\ Kinds(rest) =
                             <<"prompt", "build", "append", "return">>
                        /\ rest[3].obj = log[k].obj
                        /\ rest[4].obj = log[k].obj

\* a page break whose flush takes the width fallback, pads and is
\* continued, and one of a page of two rows
C5_Witness ==
  /\ paging
  /\ \E k \in 1..Len(log):
       /\ log[k].e = "page_break" /\ log[k].rows > 0
       /\ Returned(k, "return")
       /\ log[NextAt(NextAt(k))].e = "measure"
       /\ log[NextAt(NextAt(k))].width > terminal_width
       /\ BreakSteps(k)[2].e = "pad"
       /\ Kinds(BreakSteps(k))[Len(BreakSteps(k)) - 1] = "append"
  /\ \E k \in 1..Len(log):
       /\ log[k].e = "page_break" /\ log[k].rows >= 2

\* the rows of all the pages printed, in the order they were printed
RECURSIVE PrintedObjs(_)
PrintedObjs(es) ==
  IF es = <<>> THEN <<>>
  ELSE (IF es[1].e = "print" THEN RowObjs(es[1].out.rows) ELSE <<>>)
       \o PrintedObjs(Tail(es))

\* C6: with paging enabled and no prompt answered 'q', when done has
\* returned the rows of the printed pages, in order, are the rows of the
\* objects of the list, in order, each once.
C6_EveryRowPrintedOnce ==
  (paging /\ pc = "fin" /\ FirstQuit = 0) => PrintedObjs(log) = objs

\* the print events after event k
PrintsAfter(k) ==
  SelectSeq(SubSeq(log, k + 1, Len(log)), LAMBDA e: e.e = "print")

DoneAt ==
  IF \E k \in 1..Len(log): log[k].e = "done"
  THEN CHOOSE k \in 1..Len(log): log[k].e = "done"
  ELSE 0

\* C7: a done call on a pager that has not been quit calls the printer
\* exactly once if paging is disabled or the current page holds a row, and
\* not at all otherwise.
C7_DoneEmitsOnce ==
  (pc = "fin" /\ ~log[DoneAt].quit) =>
    Len(PrintsAfter(DoneAt)) =
      IF ~paging \/ log[DoneAt].rows > 0 THEN 1 ELSE 0

InitialNoWrap == [f \in DOMAIN formatters |-> formatters[f].no_wrap]

\* the objects of the add_row calls made by the replay of the flush whose
\* event "rebuild" is event k
Replayed(k) ==
  LET called == SelectSeq(SubSeq(log, k + 1, NextAt(k) - 1),
                          LAMBDA e: e.e = "add_row" /\ e.d = log[k].d + 1)
  IN [i \in 1..Len(called) |-> called[i].obj]

\* C8: a flush that measures a text wider than the terminal forces no-wrap
\* on every formatter, rebuilds the table and replays the accumulated
\* objects; when a flush returns, fallback or not, every formatter's
\* no-wrap setting is what it was when the flush began.
C8_WrapSettingsRestored ==
  /\ pc \in {"sort", "feed", "fin"} => no_wrap = InitialNoWrap
  /\ \A k \in 1..Len(log):
       /\ (log[k].e = "get_string" /\ Returned(k, "got_string")) =>
            log[EndOf(k, "got_string")].no_wrap = log[k].no_wrap
       /\ (log[k].e = "measure" /\ log[k].width > terminal_width) =>
            /\ log[NextAt(k)].e = "rebuild"
            /\ log[NextAt(k) + 1].e = "build"
            /\ \A j \in NextAt(k)..LastOf(NextAt(k), "fallback"):
                 log[j].e = "build_row" =>
                   \A f \in DOMAIN formatters: log[j].no_wrap[f]
            /\ Returned(k, "got_string") =>
                 /\ log[NextAt(NextAt(k))].e = "fallback"
                 /\ Replayed(NextAt(k)) = log[NextAt(NextAt(k))].objs

C8_Witness ==
  /\ DOMAIN formatters = {"a", "b"}
  /\ \E k \in 1..Len(log):
       /\ log[k].e = "fallback" /\ log[k].d = 0 /\ Len(log[k].objs) >= 2
       /\ log[NextAt(k)].e = "got_string"
       /\ log[NextAt(k)].no_wrap = [a |-> FALSE, b |-> TRUE]
  /\ \E k \in 1..Len(log): log[k].e = "got_string" /\ log[k - 1].e = "measure"

\* C9: a flush measures the width at most once and rebuilds the table
\* unwrapped at most once; the text of the rebuilt table is what the flush
\* returns, however wide it is.
C9_SingleFallbackPass ==
  \A k \in 1..Len(log):
    log[k].e = "get_string" =>
      LET own == SelectSeq(SubSeq(log, k + 1, LastOf(k, "got_string")),
                           LAMBDA e: e.d = log[k].d)
      IN /\ Len(SelectSeq(own, LAMBDA e: e.e = "measure")) <= 1
         /\ Len(SelectSeq(own, LAMBDA e: e.e = "rebuild")) <= 1
         /\ IF Returned(k, "got_string")
            THEN Kinds(own) \in
                   {<<"got_string">>, <<"measure", "got_string">>,
                    <<"measure", "rebuild", "fallback", "got_string">>}
            ELSE Kinds(own) = <<"measure", "rebuild">>
         /\ Len(own) = 4 => own[4].out = own[3].after

C9_Witness ==
  \E k \in 1..Len(log):
    /\ log[k].e = "fallback"
    /\ log[k].after.rows # <<>>
    /\ get_width(log[k].after) > terminal_width
    /\ log[NextAt(k)].out = log[k].after
    /\ log[NextAt(k) + 1].e = "print"
    /\ log[NextAt(k) + 1].out = log[k].after

SameValue(x, y) == x.s = y.s /\ x.ts = y.ts

\* C10: the text a width fallback returns holds rows for the same objects,
\* in the same order, as the text that was too wide, and every cell holds
\* the same value; only the wrapping differs.
C10_FallbackKeepsValues ==
  \A k \in 1..Len(log):
    log[k].e = "fallback" =>
      /\ RowObjs(log[k].after.rows) = RowObjs(log[k].before.rows)
      /\ \A i \in 1..Len(log[k].before.rows):
           \A c \in 1..Len(Fields):
             SameValue(log[k].after.rows[i].cells[c],
                       log[k].before.rows[i].cells[c])

\* C11: parse_date is idempotent, parse_date(parse_date(v)) = parse_date(v)
\* for every value v and every offset of the local time zone; so the
\* attributes a second row build of an object writes back are those the
\* first row build wrote.
C11_ParseDateIdempotent ==
  /\ \A k \in 1..Len(log):
       log[k].e = "build_row" =>
         \A f \in DOMAIN log[k].was:
           parse_date(parse_date(log[k].was[f])) = parse_date(log[k].was[f])
  /\ \A k \in 1..Len(log):
       \A j \in (k + 1)..Len(log):
         (log[k].e = "build_row" /\ log[j].e = "build_row"
          /\ log[j].obj = log[k].obj) => log[j].now = log[k].now

\* the key the claim names for object o and field f
ResolvedKey(o, f) ==
  IF f \in DOMAIN formatters
  THEN IF formatters[f].kind = "wrap"
       THEN (IF f \in DOMAIN o THEN o[f] ELSE EmptyStr)
       ELSE PlainFormat(IF f \in DOMAIN o THEN o[f] ELSE EmptyStr)
  ELSE IF f \in DOMAIN o THEN o[f] ELSE EmptyStr

KeyBefore(x, y) == x.s < y.s \/ (x.s = y.s /\ x.ts < y.ts)

\* C12: when the list has been sorted and no row was built yet, objs is a
\* permutation of the input list (the objects 1..n, in this order); with a
\* sort field no object comes before one whose key is smaller (ascending)
\* or larger (descending), and objects of equal keys are in input order;
\* without a sort field objs is the input list.
C12_SortedStablePermutation ==
  (pc = "feed" /\ fed = 0) =>
    /\ Len(objs) = Len(heap)
    /\ \A x \in DOMAIN heap: \E i \in DOMAIN objs: objs[i] = x
    /\ sortby = NoSort => objs = [i \in DOMAIN heap |-> i]
    /\ sortby # NoSort =>
         \A i, j \in DOMAIN objs:
           i < j =>
             LET ki == ResolvedKey(heap[objs[i]], Fields[sortby])
                 kj == ResolvedKey(heap[objs[j]], Fields[sortby])
             IN /\ IF reversesort THEN ~KeyBefore(ki, kj)
                                  ELSE ~KeyBefore(kj, ki)
                /\ ki = kj => objs[i] < objs[j]

\* a descending sort by a plain formatter's result that moves objects and
\* keeps two objects of equal keys in input order
C12_Witness ==
  /\ pc = "feed" /\ fed = 0
  /\ sortby = 1 /\ reversesort
  /\ formatters \in PlainConfigs
  /\ objs # [i \in DOMAIN heap |-> i]
  /\ \E i, j \in DOMAIN objs:
       /\ i < j
       /\ heap[objs[i]] = heap[objs[j]]
  /\ \E i, j \in DOMAIN objs:
       /\ i < j
       /\ heap[objs[i]].a.s < heap[objs[j]].a.s

\* the largest member of a non-empty set of numbers
SetMax(S) == CHOOSE x \in S: \A y \in S: y <= x

\* the height the claim gives a row: 1 for a row without cells, else the
\* largest over its cells of 1 for an empty cell and the number of line
\* breaks plus 1 for any other
ClaimedHeight(row) ==
  IF row = <<>> THEN 1
  ELSE SetMax({IF row[c] = EmptyStr THEN 1 ELSE row[c].nl + 1 :
                 c \in 1..Len(row)})

\* C13: whenever _row_add has a row measured, row_height gives the largest
\* height of its cells, where the height of an empty cell is 1 and that of
\* any other cell its number of line breaks plus 1; the header height is 4
\* plus the height so defined of the header row; every height is at least
\* 1.
C13_Heights ==
  /\ \A k \in 1..Len(log):
       log[k].e = "row_height" =>
         /\ log[k].h = ClaimedHeight(log[k].row)
         /\ log[k].h >= 1
  /\ pt # NoPt =>
       /\ header_height = 4 + ClaimedHeight(pt.field_names)
       /\ header_height >= 5

\* the attribute of field f of object o as the claims read it: '' when o
\* has no such attribute
Attr(o, f) == IF f \in DOMAIN o THEN o[f] ELSE EmptyStr

\* C14: every row _build_row_from_object returns has one cell per field,
\* as many as there are labels; cell c displays the normalized attribute of
\* field c (through the field's formatter when one is registered); a field
\* the object lacks gives the empty string, or what the registered formatter
\* makes of the empty string.
C14_OneCellPerField ==
  /\ Len(field_labels) = Len(Fields)
  /\ pt # NoPt =>
       /\ Len(pt.field_names) = Len(Fields)
       /\ \A r \in 1..Len(pt.rows): Len(pt.rows[r].cells) = Len(Fields)
  /\ \A k \in 1..Len(log):
       log[k].e = "build_row" =>
         /\ Len(log[k].row) = Len(Fields)
         /\ \A c \in 1..Len(Fields):
              LET f == Fields[c]
                  v == parse_date(Attr(log[k].was, f))
                  shown == IF f \in DOMAIN formatters
                                /\ formatters[f].kind = "plain"
                           THEN PlainFormat(v) ELSE v
              IN /\ SameValue(log[k].row[c], shown)
                 /\ f \notin DOMAIN log[k].was =>
                      log[k].row[c] = IF f \in DOMAIN formatters
                                         /\ formatters[f].kind = "plain"
                                      THEN PlainFormat(EmptyStr) ELSE EmptyStr

\* an object without attribute b was built into a row twice, the second
\* time by a fallback replay, with a formatter registered for b
C14_Witness ==
  /\ "b" \in DOMAIN formatters
  /\ \E k \in 1..Len(log):
       /\ log[k].e = "build_row" /\ log[k].d = 1
       /\ log[k].row[2] = EmptyStr
       /\ \E j \in 1..(k - 1):
            /\ log[j].e = "build_row" /\ log[j].obj = log[k].obj
            /\ "b" \notin DOMAIN log[j].was
            /\ log[j].row[2] = EmptyStr

\* C15: with paging enabled, before the first add_row no table is built and
\* lines-remaining is the terminal height; the first add_row builds the
\* table; from then on, in every state between calls and whenever a page is
\* printed, lines-remaining is the terminal height minus the header height
\* minus the heights of the rows in the table.
C15_LinesLeftAccounting ==
  paging =>
    /\ pt = NoPt =>
         /\ Events("add_row") = <<>>
         /\ terminal_lines_left = terminal_height
    /\ Events("add_row") # <<>> =>
         /\ log[1].e = "add_row" /\ log[2].e = "build"
         /\ pt # NoPt
    /\ pt # NoPt =>
         terminal_lines_left =
           terminal_height - header_height - PageHeight(pt)
    /\ \A k \in 1..Len(log):
         log[k].e = "print" =>
           log[k].left = terminal_height - log[k].hh - PageHeight(log[k].out)

\* a table whose row is higher than a line, after a page of two rows, a
\* width fallback and a continued page break
C15_Witness ==
  /\ paging /\ pc = "feed"
  /\ pt # NoPt /\ pt.rows # <<>> /\ PageHeight(pt) > Len(pt.rows)
  /\ Events("fallback") # <<>>
  /\ \E k \in 1..Len(log): log[k].e = "print" /\ Len(log[k].out.rows) = 2
  /\ \E k \in 1..Len(log):
       /\ log[k].e = "prompt" /\ log[k].s = "" /\ log[k].d = 0
       /\ log[k + 1].e = "build"
  /\ terminal_lines_left =
       terminal_height - header_height - PageHeight(pt)

C17_ObjsMatchRows ==
  (pc = "feed" /\ ~quit) => objs_in_pt = TableObjs

\* C18: when the global no-wrap override is active, no flush measures a
\* width, rebuilds the table, replays an object or changes a formatter's
\* no-wrap setting: every get_string returns at once, with the settings it
\* was called with, and what is printed is the rendering of the table as it
\* was, however wide (nothing when the printer raises on it).
C18_OverrideSkipsFallback ==
  nowrap =>
    /\ no_wrap = InitialNoWrap
    /\ \A k \in 1..Len(log):
         /\ log[k].e \notin {"measure", "rebuild", "fallback"}
         /\ log[k].d = 0
         /\ log[k].e = "build_row" => log[k].no_wrap = InitialNoWrap
         /\ log[k].e = "get_string" =>
              /\ log[k + 1].e = "got_string"
              /\ log[k + 1].no_wrap = log[k].no_wrap
              /\ IF k + 2 <= Len(log)
                 THEN /\ log[k + 2].e = "print"
                      /\ log[k + 2].out = log[k + 1].out
                 ELSE pc = "raised" /\ PrintRaises(log[k + 1].out)
    /\ (pc = "fin" /\ Events("done")[1].rows > 0 /\ ~quit) =>
         log[Len(log)].e = "print" /\ log[Len(log)].out = PtGetString(pt)

\* under the override a page wider than the terminal is printed at a page
\* break and another by done
C18_Witness ==
  /\ nowrap /\ pc = "fin" /\ paging
  /\ log[Len(log)].e = "print"
  /\ get_width(log[Len(log)].out) > terminal_width
  /\ \E k \in 1..Len(log):
       /\ log[k].e = "page_break"
       /\ log[k + 1].e = "get_string"
       /\ get_width(log[k + 2].out) > terminal_width

FieldSet == {Fields[i] : i \in 1..Len(Fields)}

\* the build_row events of object x, in order
BuildsOf(x) == SelectSeq(log, LAMBDA e: e.e = "build_row" /\ e.obj = x)

\* C19: a row build leaves on the object, for every field with a registered
\* formatter, the normalized attribute ('' when the object had none); it
\* leaves every attribute of a field without formatter as it was, creates
\* none for such a field, and leaves the attributes that are not fields as
\* they were.  While print_long_list runs nothing but a row build changes
\* an object.
C19_WriteBackOnlyFormatted ==
  /\ \A k \in 1..Len(log):
       log[k].e = "build_row" =>
         LET was == log[k].was
             now == log[k].now
         IN /\ DOMAIN now = DOMAIN was \cup (FieldSet \cap DOMAIN formatters)
            /\ \A f \in DOMAIN now:
                 now[f] = IF f \in FieldSet \cap DOMAIN formatters
                          THEN parse_date(Attr(was, f))
                          ELSE was[f]
  /\ \A x \in DOMAIN heap:
       LET bs == BuildsOf(x)
       IN /\ \A i \in 1..(Len(bs) - 1): bs[i + 1].was = bs[i].now
          /\ (bs # <<>> /\ pc \in {"feed", "wait"}) =>
               heap[x] = bs[Len(bs)].now

\* with a formatter for a only and a local zone one hour off: a row build
\* changed a, showed b's date-time normalized without writing it back, and
\* another left an object without attribute b, and one left c alone
C19_Witness ==
  /\ tz = 1 /\ DOMAIN formatters = {"a"}
  /\ \E k \in 1..Len(log):
       /\ log[k].e = "build_row"
       /\ "b" \in DOMAIN log[k].was /\ log[k].was.b.ts # NoTs
       /\ log[k].row[2].ts = log[k].was.b.ts + 1
       /\ log[k].now.b = log[k].was.b
  /\ \E k \in 1..Len(log):
       /\ log[k].e = "build_row"
       /\ "b" \notin DOMAIN log[k].now
       /\ log[k].now.a # log[k].was.a
  /\ \E k \in 1..Len(log):
       /\ log[k].e = "build_row"
       /\ "c" \in DOMAIN log[k].was
       /\ log[k].now.c = log[k].was.c

\* the prompts read from event k up to the return of the call it starts
PromptsOf(k) ==
  SelectSeq(SubSeq(log, k, LastOf(k, "return")), LAMBDA e: e.e = "prompt")

\* C20: every add_row call print_long_list makes reads at most one prompt,
\* and when print_long_list has ended every object of the list is in a
\* printed page unless the user quit.
C20_OnePromptPerCall ==
  /\ \A k \in 1..Len(log):
       (log[k].e = "add_row" /\ log[k].d = 0) => Len(PromptsOf(k)) <= 1
  /\ pc = "fin" =>
       \/ FirstQuit > 0
       \/ \A i \in 1..Len(objs): InSeq(objs[i], PrintedObjs(log))

\* the call that event k starts appended its row to the table
AppendedIn(k) ==
  \E j \in k..LastOf(k, "return"):
    /\ log[j].e = "append" /\ log[j].d = log[k].d
    /\ log[j].obj = log[k].obj

\* C21: with paging on and off, every add_row call that appended its row
\* returns True and every add_row call that did not returns False.
C21_ReturnTellsAccepted ==
  /\ \A k \in 1..Len(log):
       (log[k].e = "add_row" /\ Returned(k, "return")) =>
         log[EndOf(k, "return")].ret =
           IF AppendedIn(k) THEN "True" ELSE "False"
  /\ (pc = "feed" /\ fed > 0) => ret \in {"True", "False"}

====
